---- MODULE Spec2Model ----
(***************************************************************************)
(* Model of dataset_generation/generate.py: run_git_command and            *)
(* get_commit_data.                                                        *)
(*                                                                         *)
(* A Python str is a Text: the sequence of its maximal runs of equal       *)
(* characters, each run a record [c, n] (character, how many).  "aab" is   *)
(* <<[c |-> "a", n |-> 2], [c |-> "b", n |-> 1]>>.  The zero byte is the   *)
(* character NUL.  A value returned by run_git_command is a record         *)
(* [absent, text]: absent = TRUE is Python's None.                         *)
(***************************************************************************)
EXTENDS Integers, Sequences, FiniteSets, TLC

\* ------------------------------------------------------------------ bounds

\* Largest number of non-merge commits the repository history holds.
MaxHistory == 2

\* ------------------------------------------------------------ text helpers

NUL == "NUL"

\* Characters str.strip() removes when called without argument.
Whitespace == {" ", "\n"}

Run(c, n) == [c |-> c, n |-> n]

\* The text of n copies of the character c.
Rep(c, n) == IF n = 0 THEN <<>> ELSE <<Run(c, n)>>

\* a + b
Cat(a, b) ==
    IF a = <<>> THEN b
    ELSE IF b = <<>> THEN a
    ELSE IF a[Len(a)].c = b[1].c
         THEN SubSeq(a, 1, Len(a) - 1) \o <<Run(b[1].c, a[Len(a)].n + b[1].n)>> \o Tail(b)
         ELSE a \o b

\* The text of a string literal, given character by character.
RECURSIVE Lit(_)
Lit(s) == IF s = <<>> THEN <<>> ELSE Cat(Rep(Head(s), 1), Lit(Tail(s)))

\* len(t)
RECURSIVE TextLen(_)
TextLen(t) == IF t = <<>> THEN 0 ELSE Head(t).n + TextLen(Tail(t))

RECURSIVE LStrip(_, _)
LStrip(t, cs) ==
    IF t = <<>> THEN t
    ELSE IF Head(t).c \in cs THEN LStrip(Tail(t), cs) ELSE t

RECURSIVE RStrip(_, _)
RStrip(t, cs) ==
    IF t = <<>> THEN t
    ELSE IF t[Len(t)].c \in cs THEN RStrip(SubSeq(t, 1, Len(t) - 1), cs) ELSE t

\* str.strip(chars): every leading and every trailing character of cs goes.
StripChars(t, cs) == RStrip(LStrip(t, cs), cs)

\* str.strip()
Strip(t) == StripChars(t, Whitespace)

\* str.split(sep): always at least one token; adjacent separators give "".
RECURSIVE Split(_, _)
Split(t, sep) ==
    LET at == {k \in 1..Len(t) : t[k].c = sep}
    IN  IF at = {} THEN <<t>>
        ELSE LET k == CHOOSE m \in at : \A n \in at : m <= n
                 rest == Rep(sep, t[k].n - 1) \o SubSeq(t, k + 1, Len(t))
             IN  <<SubSeq(t, 1, k - 1)>> \o Split(rest, sep)

\* --------------------------------------------------------- run_git_command

NoneValue == [absent |-> TRUE, text |-> <<>>]

Str(t) == [absent |-> FALSE, text |-> t]

\* Python truthiness of a str-or-None value: None and "" are falsy.
Truthy(v) == ~v.absent /\ v.text /= <<>>

\* What the child process did: exc is the exception Popen/communicate raised
\* ("none" when the process ran), stdout and stderr are its decoded streams.
ProcOutcome(exc, stdout, stderr) == [exc |-> exc, stdout |-> stdout, stderr |-> stderr]

\* run_git_command without the stderr test of line 21.
run_git_command_IgnoreStderr(o) ==
    IF o.exc /= "none" THEN NoneValue ELSE Str(Strip(o.stdout))

run_git_command(o) ==
    IF o.exc /= "none" THEN NoneValue
    ELSE IF Strip(o.stderr) /= <<>> THEN NoneValue
    ELSE Str(Strip(o.stdout))

\* ------------------------------------------------------------- environment

\* The character limit of the size filter (generate.py line 86).
MaxDiffLen == 5000

\* max_commits as the caller may pass it: None, an int, or some other type.
MaxCommitsValues ==
    {[type |-> "None", val |-> 0], [type |-> "str", val |-> 2]}
    \cup {[type |-> "int", val |-> n] : n \in {-1, 0, 1, 2}}

\* The <<summary, body>> pairs a commit of the history may carry.
Messages ==
    {<<Lit(<<"s">>), Lit(<<"b", "\n">>)>>,
     <<Lit(<<"s">>), Lit(<<>>)>>,
     <<Lit(<<" ", "s", " ">>), Lit(<<"b", "\n">>)>>,
     <<Lit(<<" ", "s", " ">>), Lit(<<" ">>)>>,
     <<Lit(<<>>), Lit(<<"b", "\n">>)>>,
     <<Lit(<<>>), Lit(<<>>)>>}

\* The k-th commit of the history; commit identifiers are pairwise distinct.
Commit(k, s, b) == [hash |-> Rep("h", k), subject |-> s, body |-> b]

Histories ==
    UNION {{[k \in 1..n |-> Commit(k, sb[k][1], sb[k][2])] :
               sb \in [1..n -> Messages]} : n \in 0..MaxHistory}

\* Text between two commits of the log output.
Separators == {Lit(<<>>), Lit(<<"\n">>)}

\* One commit under the format %H%x00%s%x00%b%x00.
FormatCommit(c) ==
    Cat(c.hash, Cat(Rep(NUL, 1), Cat(c.subject, Cat(Rep(NUL, 1), Cat(c.body, Rep(NUL, 1))))))

RECURSIVE JoinCommits(_, _)
JoinCommits(h, sep) ==
    IF h = <<>> THEN <<>>
    ELSE IF Len(h) = 1 THEN FormatCommit(h[1])
    ELSE Cat(FormatCommit(h[1]), Cat(sep, JoinCommits(Tail(h), sep)))

\* The commits git log walks for a command: the n most recent with "-n n".
Walked(h, cmd) ==
    IF cmd.capped /\ cmd.n < Len(h) THEN SubSeq(h, 1, cmd.n) ELSE h

\* stdout of the bulk log query.
GitLogStdout(h, cmd, sep) == JoinCommits(Walked(h, cmd), sep)

\* What the bulk log process may do.
LogOutcomes(h, cmd) ==
    {ProcOutcome("none", GitLogStdout(h, cmd, sep), <<>>) : sep \in Separators}
    \cup {ProcOutcome("none", GitLogStdout(h, cmd, <<>>), Lit(<<"\n">>)),
          ProcOutcome("none", GitLogStdout(h, cmd, <<>>), Lit(<<"e">>)),
          ProcOutcome("FileNotFoundError", <<>>, <<>>),
          ProcOutcome("OSError", <<>>, <<>>)}

\* What a per-commit "git show" process may do for the revision rev.
ShowOutcomes(rev) ==
    {ProcOutcome("none", Cat(Rep("+", 1), rev), <<>>),
     ProcOutcome("none", Cat(Rep("d", MaxDiffLen), Rep("\n", 1)), <<>>),
     ProcOutcome("none", Rep("d", MaxDiffLen + 1), <<>>),
     ProcOutcome("none", <<>>, Lit(<<"e">>)),
     ProcOutcome("OSError", <<>>, <<>>)}

\* ------------------------------------------------------------------- state

VARIABLES
    repo_is_git,          \* os.path.isdir(os.path.join(repo_path, ".git"))
    max_commits,          \* the max_commits argument
    history,              \* the non-merge commits of the repository, newest first
    pc,                   \* position in get_commit_data
    git_log_command,
    log_output,
    commit_entries_raw,
    i,
    commit_hash,
    subject,
    body,
    full_commit_message,
    diff_output,
    dataset,
    exception,            \* the exception that escaped get_commit_data, or "none"
    calls                 \* the external invocations so far, with what each returned

vars == <<repo_is_git, max_commits, history, pc, git_log_command, log_output,
          commit_entries_raw, i, commit_hash, subject, body, full_commit_message,
          diff_output, dataset, exception, calls>>

locals == <<commit_hash, subject, body, full_commit_message>>

LogCommand(capped, n) == [verb |-> "log", capped |-> capped, n |-> n, rev |-> <<>>]

ShowCommand(rev) == [verb |-> "show", capped |-> FALSE, n |-> 0, rev |-> rev]

\* One external invocation: the command, what the process did, what
\* run_git_command returned for it.
Call(cmd, o, out) == [cmd |-> cmd, outcome |-> o, result |-> out]

Init ==
    /\ repo_is_git \in BOOLEAN
    /\ max_commits \in MaxCommitsValues
    /\ history \in Histories
    /\ pc = "start"
    /\ git_log_command = LogCommand(FALSE, 0)
    /\ log_output = NoneValue
    /\ commit_entries_raw = <<>>
    /\ i = 0
    /\ commit_hash = <<>>
    /\ subject = <<>>
    /\ body = <<>>
    /\ full_commit_message = <<>>
    /\ diff_output = NoneValue
    /\ dataset = <<>>
    /\ exception = "none"
    /\ calls = <<>>

\* Lines 47-57: the repository check and the construction of the log command.
\* Line 56 without "max_commits > 0".
CapApplies_AnyInt(mc) == mc.type = "int"

CapApplies(mc) == mc.type = "int" /\ mc.val > 0

BuildLogCommand(mc) ==
    IF CapApplies(mc) THEN LogCommand(TRUE, mc.val) ELSE LogCommand(FALSE, 0)

\* Line 48 without the directory test.
NotARepository_Never == FALSE

NotARepository == ~repo_is_git

CheckRepo ==
    /\ pc = "start"
    /\ IF NotARepository
       THEN /\ pc' = "done"
            /\ UNCHANGED git_log_command
       ELSE /\ git_log_command' = BuildLogCommand(max_commits)
            /\ pc' = "log"
    /\ UNCHANGED <<repo_is_git, max_commits, history, log_output, commit_entries_raw,
                   i, locals, diff_output, dataset, exception, calls>>

\* Lines 59-66: the bulk log query and the split of its output.
ParseLog(text) == Split(StripChars(text, {NUL}), NUL)

LogQuery ==
    /\ pc = "log"
    /\ \E o \in LogOutcomes(history, git_log_command) :
         LET out == run_git_command(o)
         IN  /\ log_output' = out
             /\ calls' = Append(calls, Call(git_log_command, o, out))
             /\ IF ~Truthy(out)
                THEN /\ pc' = "done"
                     /\ UNCHANGED <<commit_entries_raw, i>>
                ELSE /\ commit_entries_raw' = ParseLog(out.text)
                     /\ i' = 0
                     /\ pc' = "loop"
    /\ UNCHANGED <<repo_is_git, max_commits, history, git_log_command, locals,
                   diff_output, dataset, exception>>

\* Lines 70-78: the loop head and the fields of one record.  i is the
\* 0-based index of the code; commit_entries_raw[i] is Token(i).
Token(k) == commit_entries_raw[k + 1]

\* commit_entries_raw[k+1] exists; line 72 raises IndexError otherwise.
HasSubject(k) == k + 1 < Len(commit_entries_raw)

HashOf(k) == Strip(Token(k))

SubjectOf(k) == Token(k + 1)

BodyOf(k) == IF k + 2 < Len(commit_entries_raw) THEN Strip(Token(k + 2)) ELSE <<>>

\* Line 78 with a single line break between summary and body.
FullMessage_OneNewline(s, b) == IF b /= <<>> THEN Cat(s, Cat(Rep("\n", 1), b)) ELSE s

FullMessage(s, b) == IF b /= <<>> THEN Cat(s, Cat(Rep("\n", 2), b)) ELSE s

ParseRecord ==
    /\ pc = "loop"
    /\ IF i >= Len(commit_entries_raw)
       THEN /\ pc' = "done"
            /\ UNCHANGED <<locals, exception>>
       ELSE IF ~HasSubject(i)
       THEN /\ pc' = "raised"
            /\ exception' = "IndexError"
            /\ commit_hash' = HashOf(i)
            /\ UNCHANGED <<subject, body, full_commit_message>>
       ELSE /\ commit_hash' = HashOf(i)
            /\ subject' = SubjectOf(i)
            /\ body' = BodyOf(i)
            /\ full_commit_message' = FullMessage(SubjectOf(i), BodyOf(i))
            /\ pc' = "diff"
            /\ UNCHANGED exception
    /\ UNCHANGED <<repo_is_git, max_commits, history, git_log_command, log_output,
                   commit_entries_raw, i, diff_output, dataset, calls>>

\* Lines 83-93: the diff query, the size filter and the append.
\* Line 86 with the comparison off by one, either way.
TooLong_OffByOne(text) == TextLen(text) > MaxDiffLen + 1

TooLong_Inclusive(text) == TextLen(text) >= MaxDiffLen

TooLong(text) == TextLen(text) > MaxDiffLen

\* Line 92 without the final strip().
Entry_NoStrip(diff, message) == [diff |-> diff, commit_message |-> message]

Entry(diff, message) == [diff |-> diff, commit_message |-> Strip(message)]

DiffQuery ==
    /\ pc = "diff"
    /\ \E o \in ShowOutcomes(commit_hash) :
         LET out == run_git_command(o)
         IN  /\ diff_output' = out
             /\ calls' = Append(calls, Call(ShowCommand(commit_hash), o, out))
             /\ IF out.absent
                THEN /\ pc' = "raised"
                     /\ exception' = "TypeError"
                     /\ UNCHANGED <<i, dataset>>
                ELSE /\ pc' = "loop"
                     /\ i' = i + 3
                     /\ dataset' = IF TooLong(out.text) THEN dataset
                                   ELSE Append(dataset, Entry(out.text, full_commit_message))
                     /\ UNCHANGED exception
    /\ UNCHANGED <<repo_is_git, max_commits, history, git_log_command, log_output,
                   commit_entries_raw, locals>>

Next == CheckRepo \/ LogQuery \/ ParseRecord \/ DiffQuery

Spec == Init /\ [][Next]_vars

\* ------------------------------------------------ vocabulary of the claims

Terminated == pc \in {"done", "raised"}

IsShow(c) == c.cmd.verb = "show"

\* The per-commit diff queries issued so far, in order.
ShowCalls == SelectSeq(calls, IsShow)

\* The bulk log query has returned a non-empty blob.
LogUsable == calls /= <<>> /\ Truthy(calls[1].result)

\* The commits whose fields make up the log blob.
Considered == Walked(history, git_log_command)

\* Groups of three tokens, the last one possibly short.
NumGroups == (Len(commit_entries_raw) + 2) \div 3

\* The process gave no text: it raised, or wrote a diagnostic to stderr.
HasDiagnostic(o) == \E k \in 1..Len(o.stderr) : o.stderr[k].c \notin Whitespace

NoText(o) == o.exc /= "none" \/ HasDiagnostic(o)

\* Summary, blank line, trimmed body; the summary alone for an empty body.
Assembled(c) ==
    IF Strip(c.body) = <<>> THEN c.subject
    ELSE Cat(c.subject, Cat(Rep("\n", 2), Strip(c.body)))

\* Records whose diff came back and passed the size filter.
Kept ==
    {g \in 1..Len(ShowCalls) :
        /\ ~ShowCalls[g].result.absent
        /\ TextLen(ShowCalls[g].result.text) <= MaxDiffLen}

\* The record the e-th dataset entry was built from.
Origin(e) == CHOOSE g \in Kept : Cardinality({x \in Kept : x <= g}) = e

Increasing(m, n) == {f \in [1..m -> 1..n] : \A a, b \in 1..m : a < b => f[a] < f[b]}

IsPrefix(a, b) == Len(a) <= Len(b) /\ SubSeq(b, 1, Len(a)) = a

Cmds == [k \in 1..Len(calls) |-> calls[k].cmd]

\* ------------------------------------------------------------------ claims

\* C1: a diff query that returns no text (stderr output or an exception in
\* run_git_command) makes its record contribute nothing, get_commit_data
\* does not raise, and every later record still gets its diff query.
C1_AbsentDiffIsSkipped ==
    \A j \in 1..Len(ShowCalls) :
        NoText(ShowCalls[j].outcome) =>
            /\ exception = "none"
            /\ j \notin {Origin(e) : e \in 1..Len(dataset)}
            /\ Terminated => Len(ShowCalls) = NumGroups

\* C2: a well-formed blob of K commits (identifier, summary, body, each
\* followed by NUL; summary and body possibly empty, also for the last
\* commit) parses into exactly K records, in order, record g carrying the
\* identifier, summary and trimmed body of commit g, and parsing never fails.
C2_ParserYieldsEveryCommit ==
    LogUsable =>
        /\ exception /= "IndexError"
        /\ NumGroups = Len(Considered)
        /\ \A g \in 1..Len(Considered) :
              /\ HasSubject(3 * (g - 1))
              /\ HashOf(3 * (g - 1)) = Considered[g].hash
              /\ SubjectOf(3 * (g - 1)) = Considered[g].subject
              /\ BodyOf(3 * (g - 1)) = Strip(Considered[g].body)

RECURSIVE Filtered(_)
Filtered(g) ==
    IF g = 0 THEN <<>>
    ELSE LET r == ShowCalls[g].result.text
         IN  IF TextLen(r) <= MaxDiffLen
             THEN Append(Filtered(g - 1),
                         [diff |-> r, commit_message |-> Strip(Assembled(Considered[g]))])
             ELSE Filtered(g - 1)

C5_MessageIsSummaryBlankBody ==
    \A e \in 1..Len(dataset) :
        LET c == Considered[Origin(e)]
        IN  Strip(c.body) /= <<>> =>
                dataset[e].commit_message
                    = Cat(c.subject, Cat(Rep("\n", 2), Strip(c.body)))

\* C5 amended: for a record with a non-empty trimmed body the stored
\* commit_message is summary + "\n\n" + trimmed(body) with the leading and
\* trailing whitespace of that whole text removed.
C5_MessageIsTrimmedSummaryBlankBody ==
    \A e \in 1..Len(dataset) :
        LET c == Considered[Origin(e)]
        IN  Strip(c.body) /= <<>> =>
                dataset[e].commit_message
                    = Strip(Cat(c.subject, Cat(Rep("\n", 2), Strip(c.body))))

C5_Witness ==
    /\ \E e \in 1..Len(dataset) :
          LET c == Considered[Origin(e)]
          IN  Strip(c.body) /= <<>> /\ c.subject /= <<>> /\ Strip(c.subject) /= c.subject
    /\ \E e \in 1..Len(dataset) :
          LET c == Considered[Origin(e)]
          IN  Strip(c.body) /= <<>> /\ c.subject = Strip(c.subject) /\ c.subject /= <<>>

\* The final group holds an identifier and a summary and no body token.
ShortFinalGroup == Len(commit_entries_raw) % 3 = 2

\* C6: for a record whose trimmed body is empty, also when the final group
\* has an identifier and a summary but no body token, parsing does not
\* fail, the body is the empty string and the stored commit_message is the
\* trimmed summary with nothing appended.
C6_EmptyBodyGivesTrimmedSummary ==
    /\ \A e \in 1..Len(dataset) :
          LET c == Considered[Origin(e)]
          IN  Strip(c.body) = <<>> => dataset[e].commit_message = Strip(c.subject)
    /\ (LogUsable /\ ShortFinalGroup) =>
          /\ BodyOf(3 * (NumGroups - 1)) = <<>>
          /\ exception /= "IndexError"
          /\ (pc = "diff" /\ i = 3 * (NumGroups - 1)) =>
                (body = <<>> /\ full_commit_message = subject)

C6_Witness ==
    /\ pc = "done"
    /\ ShortFinalGroup
    /\ Len(dataset) = 2
    /\ Origin(2) = NumGroups
    /\ Considered[1].body /= <<>>
    /\ Strip(Considered[1].body) = <<>>
    /\ Strip(Considered[1].subject) /= Considered[1].subject

\* C7: without a .git directory get_commit_data returns an empty dataset,
\* raises nothing and issues no external command.
C7_NoRepositoryNoCommands ==
    ~repo_is_git =>
        /\ calls = <<>>
        /\ dataset = <<>>
        /\ exception = "none"
        /\ pc \in {"start", "done"}

C7_Witness == ~repo_is_git /\ pc = "done" /\ history /= <<>>

\* C8: when the bulk log query gives nothing usable (empty output, stderr
\* diagnostic, git not found, any other exception) get_commit_data returns
\* an empty dataset, raises nothing and issues no diff query.
C8_UnusableLogAbandonsRun ==
    (calls /= <<>> /\ (NoText(calls[1].outcome) \/ calls[1].outcome.stdout = <<>>)) =>
        /\ pc = "done"
        /\ dataset = <<>>
        /\ exception = "none"
        /\ Len(calls) = 1

C8_Witness ==
    /\ pc = "done"
    /\ calls /= <<>>
    /\ HasDiagnostic(calls[1].outcome)
    /\ calls[1].outcome.stdout /= <<>>

\* C9: the log query carries the cap N exactly when max_commits is an int
\* N > 0, and then at most N records are considered, at most N diff queries
\* are issued and the dataset has at most N entries; otherwise the query
\* carries no cap and every commit of the history is considered.
C9_CapOnlyForPositiveInt ==
    (repo_is_git /\ pc /= "start") =>
        IF max_commits.type = "int" /\ max_commits.val > 0
        THEN /\ git_log_command = LogCommand(TRUE, max_commits.val)
             /\ \A k \in 1..Len(calls) :
                   calls[k].cmd.verb = "log" => calls[k].cmd = git_log_command
             /\ NumGroups <= max_commits.val
             /\ Len(ShowCalls) <= max_commits.val
             /\ Len(dataset) <= max_commits.val
        ELSE /\ git_log_command = LogCommand(FALSE, 0)
             /\ \A k \in 1..Len(calls) :
                   calls[k].cmd.verb = "log" => ~calls[k].cmd.capped
             /\ LogUsable => NumGroups = Len(history)
             /\ (LogUsable /\ pc = "done") => Len(ShowCalls) = Len(history)

C9_Witness ==
    /\ pc = "done"
    /\ max_commits.type = "int"
    /\ max_commits.val > 0
    /\ max_commits.val < Len(history)
    /\ Len(ShowCalls) = max_commits.val
    /\ Len(dataset) = max_commits.val

\* The invocations of a complete run: the log query, then one diff query
\* per record, keyed by the record's identifier, in log order.
ExpectedCmds ==
    IF LogUsable
    THEN <<git_log_command>> \o [g \in 1..Len(Considered) |-> ShowCommand(Considered[g].hash)]
    ELSE <<git_log_command>>

\* C10: on a valid repository the invocations are one log query, then (if
\* it returned records) exactly one diff query per record, in log order and
\* keyed by the record's identifier, each issued once, also for records the
\* size filter drops.
C10_OneDiffQueryPerRecord ==
    repo_is_git =>
        /\ IsPrefix(Cmds, ExpectedCmds)
        /\ Terminated => Cmds = ExpectedCmds

====
